---- MODULE Spec2Model ----
(***************************************************************************)
(* Model of the photo-location reasoning pipeline (dylmLong/Neural-Symbolic):*)
(* the spatial SQL synthesis of operators/coding/sql_generator.py, the SQL  *)
(* routing loop of operators/coordination/sql_router.py, the executor, the  *)
(* result filter and the result summarizer, wired as the LangGraph of       *)
(* agent/decompositionAgent/DecompositionAgent.py.                          *)
(*                                                                         *)
(* Text is modelled as a sequence of characters.  One token stands for one  *)
(* character, except that a run of template text containing no whitespace   *)
(* at its ends and no variable part is written as a single token.  The      *)
(* Chinese labels of the source are transliterated, one token per character:*)
(* "Ta" = tower, "Qiao" = bridge, "Shi" = stone, "Xi","Yang" = sunset.      *)
(***************************************************************************)
EXTENDS Integers, Sequences, FiniteSets, TLC

VARIABLES
    \* ---- AgentState fields (agent/shared/state.py) ----
    image_path,       \* image reference given by the caller (None or Some(path))
    intent,           \* "chat" / "reasoning", set by classify_intent
    objects,          \* detected objects (ObjectBox list)
    sql_statements,   \* synthesized SQL texts, in synthesis order
    executed_sqls,    \* texts already handed to the executor
    query_results,    \* one row list per executed text
    current_sql,      \* text selected by sql_router_step
    current_index,    \* 1-based ordinal of the selected text
    filter_results,   \* (sql, result) pairs kept by filter_results
    summary,          \* final narrative
    chat_response,    \* chat reply
    \* ---- graph engine and environment ----
    pc,               \* node the graph runs next, or how the run ended
    steps,            \* supersteps taken by graph.invoke
    boxes,            \* raw detections of the vision model for the image
    summary_request,  \* request sent to the text generator by the summarizer
    intent_reply,     \* reply of the text generator to the classification request
    received,         \* the state dict the last operator was given, as it is after the call
    generator,        \* the last call of the text generator: what the service did, what chat() gave
    \* ---- direct calls of generate_spatial_sql ----
    call,             \* arguments [a, b, sunset] of the direct calls
    sql_ab,           \* result of generate_spatial_sql(a, b, sunset)
    sql_ba            \* result of generate_spatial_sql(b, a, sunset)

agent == <<image_path, intent, objects, sql_statements, executed_sqls,
           query_results, current_sql, current_index, filter_results,
           summary, chat_response>>
engine == <<pc, steps, boxes, summary_request, intent_reply, received,
            generator>>
direct == <<call, sql_ab, sql_ba>>

\* the state dict the graph hands to a node
AgentState ==
    [ image_path |-> image_path, intent |-> intent, objects |-> objects,
      sql_statements |-> sql_statements, executed_sqls |-> executed_sqls,
      query_results |-> query_results, current_sql |-> current_sql,
      current_index |-> current_index, filter_results |-> filter_results,
      summary |-> summary, chat_response |-> chat_response ]
vars == <<agent, engine, direct>>

----------------------------------------------------------------------------
(* Bounds of the model *)

\* longest object list handed to generate_sql_queries in SpecSynth
MaxObjects == 3

\* most raw detections in an ordinary scene of Spec
MaxBoxes == 3

\* number of distinct classes detected in the crowded scene of Spec
CrowdSize == 11

\* the executor answers with rows or with a failure for at most this many
\* queries of a run, and with no rows for the later ones
MaxVaried == 3

\* most rows, over all filtered records, handed to the summarizer in SpecRank
MaxRows == 4

----------------------------------------------------------------------------
(* Generic helpers on sequences *)

Range(s) == {s[i] : i \in 1..Len(s)}

SeqsUpTo(S, n) == UNION {[1..k -> S] : k \in 0..n}

Abs(x) == IF x < 0 THEN -x ELSE x

\* Python's None for an Optional value is the empty sequence, Some(v) is <<v>>
None == <<>>
Some(v) == <<v>>

----------------------------------------------------------------------------
(* Text: str.strip() and re.sub(r'\s+', ' ', ...) *)

Whitespace == {" ", "\n", "\t"}

RECURSIVE LStrip(_)
LStrip(s) ==
    IF s = <<>> THEN <<>>
    ELSE IF Head(s) \in Whitespace THEN LStrip(Tail(s)) ELSE s

RECURSIVE RStrip(_)
RStrip(s) ==
    IF s = <<>> THEN <<>>
    ELSE IF s[Len(s)] \in Whitespace THEN RStrip(SubSeq(s, 1, Len(s) - 1)) ELSE s

Strip(s) == RStrip(LStrip(s))

\* re.sub(r'\s+', ' ', s): every maximal run of whitespace becomes one space
RECURSIVE CollapseWhitespace(_)
CollapseWhitespace(s) ==
    IF s = <<>> THEN <<>>
    ELSE IF Head(s) \in Whitespace
         THEN <<" ">> \o CollapseWhitespace(LStrip(Tail(s)))
         ELSE <<Head(s)>> \o CollapseWhitespace(Tail(s))

----------------------------------------------------------------------------
(* operators/coding/sql_generator.py *)

\* the reference marker label "夕阳" (sunset)
SUNSET == <<"Xi", "Yang">>

\* def cx(box): (bbox[0] + bbox[2]) / 2.0, kept in half units (twice the
\* centre) so that it is exact on integer coordinates; the only use of cx is
\* the comparison of two distances, which the common factor 2 leaves unchanged.
cx(box) == box.bbox[1] + box.bbox[3]

\* compare_relative_longitude with "<=" for "<": a tie counts as WEST
compare_relative_longitude_TieWest(a, b, sunset) ==
    IF Abs(cx(a) - cx(sunset)) <= Abs(cx(b) - cx(sunset)) THEN "WEST" ELSE "EAST"

compare_relative_longitude(a, b, sunset) ==
    LET sunset_cx == cx(sunset)
        a_cx == cx(a)
        b_cx == cx(b)
    IN  IF Abs(a_cx - sunset_cx) < Abs(b_cx - sunset_cx) THEN "WEST" ELSE "EAST"

WestCondition == "AND ST_X(a.location) <= ST_X(b.location)"
EastCondition == "AND ST_X(b.location) <= ST_X(a.location)"
LikeOpen == "SELECT * FROM geo_table WHERE name LIKE '%"
LikeClose == "%'"

\* a line break of the f-string followed by its indentation
Indent == <<"\n", " ">>

\* the f-string of generate_spatial_sql, before strip() and re.sub()
SqlTemplate(a_label, b_label, direction_condition) ==
    Indent \o <<"WITH geo_a AS (">>
    \o Indent \o <<LikeOpen>> \o a_label \o <<LikeClose>>
    \o Indent \o <<"), geo_b AS (">>
    \o Indent \o <<LikeOpen>> \o b_label \o <<LikeClose>>
    \o Indent \o <<")">>
    \o Indent \o <<"SELECT">>
    \o Indent \o <<"a.name AS a_name,">>
    \o Indent \o <<"a.address AS a_address,">>
    \o Indent \o <<"b.name AS b_name,">>
    \o Indent \o <<"b.address AS b_address,">>
    \o Indent \o <<"ROUND((st_distance(a.location, b.location) / 0.0111) * 1000) AS distance">>
    \o Indent \o <<"FROM geo_a AS a">>
    \o Indent \o <<"JOIN geo_b AS b ON 1=1">>
    \o Indent \o <<"WHERE 1=1 AND distance > 1 AND distance < 100">>
    \o Indent \o direction_condition
    \o Indent \o <<"ORDER BY distance">>
    \o Indent \o <<"LIMIT 3;">>
    \o Indent

\* direction_condition of generate_spatial_sql; sunset is Optional
DirectionCondition(a, b, sunset) ==
    IF sunset # None
    THEN IF compare_relative_longitude(a, b, sunset[1]) = "WEST"
         THEN <<" ", WestCondition, " ">>
         ELSE <<" ", EastCondition, " ">>
    ELSE <<>>

\* generate_spatial_sql with a['label'] pasted into both name patterns
generate_spatial_sql_SameLabelTwice(a, b, sunset) ==
    CollapseWhitespace(Strip(
        SqlTemplate(a.label, a.label, DirectionCondition(a, b, sunset))))

generate_spatial_sql(a, b, sunset) ==
    CollapseWhitespace(Strip(
        SqlTemplate(a.label, b.label, DirectionCondition(a, b, sunset))))

\* next((obj for obj in objects if obj["label"] == "夕阳"), None)
sunset_obj(objs) ==
    LET idx == {i \in 1..Len(objs) : objs[i].label = SUNSET}
    IN  IF idx = {} THEN None
        ELSE Some(objs[CHOOSE i \in idx : \A k \in idx : i <= k])

\* the (i, j) visited by "for i in range(n): for j in range(i + 1, n)",
\* in visiting order, 1-based
RECURSIVE LoopPairs(_, _, _)
LoopPairs(i, j, n) ==
    IF i > n THEN <<>>
    ELSE IF j > n THEN LoopPairs(i + 1, i + 2, n)
         ELSE <<<<i, j>>>> \o LoopPairs(i, j + 1, n)

\* the "continue" test without the comparison of the two labels
SkipPair_IgnoresSameLabel(obj_a, obj_b) ==
    \/ obj_a.label = SUNSET
    \/ obj_b.label = SUNSET

\* the "continue" test looking for the reference marker in obj_a only
SkipPair_ReferenceFirstOnly(obj_a, obj_b) ==
    \/ obj_a.label = SUNSET
    \/ obj_a.label = obj_b.label

\* the "continue" test of generate_sql_queries
SkipPair(obj_a, obj_b) ==
    \/ obj_a.label = SUNSET
    \/ obj_b.label = SUNSET
    \/ obj_a.label = obj_b.label

\* the index pairs for which generate_sql_queries appends a text
EmittedPairs(objs) ==
    LET keep(p) == ~SkipPair(objs[p[1]], objs[p[2]])
    IN  SelectSeq(LoopPairs(1, 2, Len(objs)), keep)

generate_sql_queries(objs) ==
    LET pairs == EmittedPairs(objs)
    IN  [k \in 1..Len(pairs) |->
            generate_spatial_sql(objs[pairs[k][1]], objs[pairs[k][2]], sunset_obj(objs))]

----------------------------------------------------------------------------
(* Inputs *)

Ta == <<"Ta">>
Qiao == <<"Qiao">>
\* two labels that differ only in the amount of whitespace
ShiQiao == <<"Shi", " ", "Qiao">>
ShiQiaoWide == <<"Shi", " ", " ", "Qiao">>

SynthLabels == {Ta, Qiao, ShiQiao, ShiQiaoWide, SUNSET}

\* bounding boxes (x1, y1, x2, y2): the three boxes of the end-to-end scenario
\* (centres 30, 220, 10), one box whose centre -10 is as far from centre 10 as
\* centre 30 is, and one box with the half-integer centre 30.5
BBoxes == { <<10, 10, 50, 50>>, <<200, 10, 240, 50>>, <<5, 5, 15, 15>>,
            <<-30, 10, 10, 50>>, <<20, 10, 41, 50>> }

ObjectBox(l, c, b) == [label |-> l, confidence |-> c, bbox |-> b]

SynthObjects == {ObjectBox(l, 90, b) : l \in SynthLabels, b \in BBoxes}

----------------------------------------------------------------------------
(* State before a run: get_init_agent_state *)

InitAgent ==
    /\ intent = "unset"
    /\ objects = <<>>
    /\ sql_statements = <<>>
    /\ executed_sqls = <<>>
    /\ query_results = <<>>
    /\ current_sql = <<>>
    /\ current_index = 0
    /\ filter_results = <<>>
    /\ summary = <<>>
    /\ chat_response = <<>>

NoDirectCall ==
    /\ call = <<>>
    /\ sql_ab = <<>>
    /\ sql_ba = <<>>

----------------------------------------------------------------------------
(* operators/perception/yolo_detector.py *)

\* detect_objects keeps, in order, the first box of every class label
detect_objects(raw) ==
    LET first(i) == \A k \in 1..(i - 1) : raw[k].label # raw[i].label
        kept == {i \in 1..Len(raw) : first(i)}
        nth(n) == CHOOSE i \in kept : Cardinality({k \in kept : k < i}) = n - 1
    IN  [n \in 1..Cardinality(kept) |-> raw[nth(n)]]

----------------------------------------------------------------------------
(* operators/coordination/sql_router.py *)

\* remaining = [sql for sql in sql_list if sql not in executed], with a
\* different comprehension: every text of sql_list, executed or not
Remaining_KeepsExecuted(sql_list, executed) == sql_list

\* remaining = [sql for sql in sql_list if sql not in executed]
Remaining(sql_list, executed) ==
    LET pending(sql) == sql \notin Range(executed)
    IN  SelectSeq(sql_list, pending)

\* sql_router_step with current_sql = remaining[-1]
sql_router_step_PicksLast(sql_list, executed, cur_sql, cur_index) ==
    LET remaining == Remaining(sql_list, executed)
    IN  IF remaining = <<>>
        THEN <<cur_sql, cur_index>>
        ELSE <<remaining[Len(remaining)], Cardinality(Range(executed)) + 1>>

\* sql_router_step: the new values of (current_sql, current_index)
sql_router_step(sql_list, executed, cur_sql, cur_index) ==
    LET remaining == Remaining(sql_list, executed)
    IN  IF remaining = <<>>
        THEN <<cur_sql, cur_index>>
        ELSE <<remaining[1], Cardinality(Range(executed)) + 1>>

\* route_sql_condition that is satisfied by the first executed text
route_sql_condition_DoneAfterFirst(sql_list, executed) ==
    IF sql_list # <<>> /\ executed = <<>> THEN "continue" ELSE "done"

\* route_sql_condition with the set difference taken the wrong way round
route_sql_condition_Reversed(sql_list, executed) ==
    LET remaining == Range(executed) \ Range(sql_list)
    IN  IF remaining # {} THEN "continue" ELSE "done"

route_sql_condition(sql_list, executed) ==
    LET remaining == Range(sql_list) \ Range(executed)
    IN  IF remaining # {} THEN "continue" ELSE "done"

----------------------------------------------------------------------------
(* operators/execution/sql_executor.py *)

\* what the database does with one query: it raises, or it returns rows
DbRaises == [raised |-> TRUE, rows |-> <<>>]
DbReturns(rows) == [raised |-> FALSE, rows |-> rows]

\* the row list execute_sql_query returns for a failed query
ErrorRows == << [error |-> "Exception"] >>

\* the value that stands for an exception leaving a function
Raised == << [raise |-> "Exception"] >>

\* execute_sql_query without its try/except: the exception leaves it
execute_sql_query_NoCatch(outcome) ==
    IF outcome.raised THEN Raised ELSE outcome.rows

\* try: rows as dicts; except Exception as e: [{"error": str(e)}]
execute_sql_query(outcome) ==
    IF outcome.raised THEN ErrorRows ELSE outcome.rows

----------------------------------------------------------------------------
(* operators/coordination/result_filter.py *)

\* zip(sql_statements, query_results)
Zip(xs, ys) ==
    LET n == IF Len(xs) < Len(ys) THEN Len(xs) ELSE Len(ys)
    IN  [i \in 1..n |-> <<xs[i], ys[i]>>]

\* filter_results without the length test: every pair is kept
filter_results_op_KeepsEmpty(sqls, results) ==
    LET all == Zip(sqls, results)
    IN  [i \in 1..Len(all) |-> [sql |-> all[i][1], result |-> all[i][2]]]

\* filter_results: the zipped pairs whose result is a non-empty list
filter_results_op(sqls, results) ==
    LET valid(p) == Len(p[2]) > 0
        kept == SelectSeq(Zip(sqls, results), valid)
    IN  [i \in 1..Len(kept) |-> [sql |-> kept[i][1], result |-> kept[i][2]]]

----------------------------------------------------------------------------
(* agent_graph/nodes/brain/filter_result.py *)

\* filter_results, the tool of the brain node: the loop over
\* zip(sql_statements, query_results) that appends {"sql", "result"} for
\* every result that is a list of length above 0
RECURSIVE valid_results(_, _)
valid_results(pairs, acc) ==
    IF pairs = <<>> THEN acc
    ELSE LET sql == Head(pairs)[1]
             result == Head(pairs)[2]
         IN  IF Len(result) > 0
             THEN valid_results(Tail(pairs), Append(acc, [sql |-> sql, result |-> result]))
             ELSE valid_results(Tail(pairs), acc)

filter_results_tool(sqls, results) == valid_results(Zip(sqls, results), <<>>)

----------------------------------------------------------------------------
(* operators/coordination/result_summarizer.py: format_results_for_llm *)

\* row.get(key, default)
Get(row, key, default) == IF key \in DOMAIN row THEN row[key] ELSE default

\* Python's "sub in s" on strings
IsSubstring(sub, str) ==
    \E i \in 0..(Len(str) - Len(sub)) : SubSeq(str, i + 1, i + Len(sub)) = sub

\* the confidence test with >= in place of >
HighConfidence_Inclusive(obj) == obj.confidence >= 70

\* confidence is kept in hundredths: "confidence > 0.7"
HighConfidence(obj) == obj.confidence > 70

\* labels of the high-confidence objects other than the reference marker
object_labels(detected) ==
    LET high(obj) == HighConfidence(obj) /\ obj.label # SUNSET
        kept == SelectSeq(detected, high)
    IN  [i \in 1..Len(kept) |-> kept[i].label]

\* all rows of all filtered records, in record order then row order
RECURSIVE AllRows(_)
AllRows(filtered) ==
    IF filtered = <<>> THEN <<>>
    ELSE Head(filtered).result \o AllRows(Tail(filtered))

\* the key without sorted(): the two names in row order
pair_key_Ordered(row) == <<Get(row, "a_name", <<>>), Get(row, "b_name", <<>>)>>

\* tuple(sorted([loc_a, loc_b])): equal for two rows exactly when the two
\* names agree as an unordered pair
pair_key(row) == {Get(row, "a_name", <<>>), Get(row, "b_name", <<>>)}

match_count(row, labels) ==
    Cardinality({i \in 1..Len(labels) :
        \/ IsSubstring(labels[i], Get(row, "a_name", <<>>))
        \/ IsSubstring(labels[i], Get(row, "b_name", <<>>))})

location_info(row, labels) ==
    [ location_a_name |-> Get(row, "a_name", <<>>),
      location_a_address |-> Get(row, "a_address", <<>>),
      location_b_name |-> Get(row, "b_name", <<>>),
      location_b_address |-> Get(row, "b_address", <<>>),
      distance |-> Get(row, "distance", 0),
      match_count |-> match_count(row, labels) ]

\* the loop over the rows with seen_pairs: the first row of every pair key
all_locations(filtered, detected) ==
    LET rows == AllRows(filtered)
        first(i) == \A k \in 1..(i - 1) : pair_key(rows[k]) # pair_key(rows[i])
        kept == {i \in 1..Len(rows) : first(i)}
        nth(n) == CHOOSE i \in kept : Cardinality({k \in kept : k < i}) = n - 1
    IN  [n \in 1..Cardinality(kept) |-> location_info(rows[nth(n)], object_labels(detected))]

\* the sort key with its two parts exchanged: (distance, -match_count)
KeyLess_DistanceFirst(x, y) ==
    \/ x.distance < y.distance
    \/ x.distance = y.distance /\ x.match_count > y.match_count

\* key=lambda x: (-match_count, distance), compared as Python compares tuples
KeyLess(x, y) ==
    \/ x.match_count > y.match_count
    \/ x.match_count = y.match_count /\ x.distance < y.distance

\* list.sort(key=...): stable, so position n goes to the element that has
\* n - 1 elements before it in key order, earlier equals counted first
StableSort(locs) ==
    LET before(i, k) == KeyLess(locs[i], locs[k])
                          \/ (~KeyLess(locs[k], locs[i]) /\ i < k)
        rank(k) == Cardinality({i \in 1..Len(locs) : i # k /\ before(i, k)}) + 1
    IN  [n \in 1..Len(locs) |-> locs[CHOOSE k \in 1..Len(locs) : rank(k) = n]]

\* top_locations without the cut to three
top_locations_NoTruncate(filtered, detected) ==
    StableSort(all_locations(filtered, detected))

\* all_locations[:3]
top_locations(filtered, detected) ==
    LET sorted == StableSort(all_locations(filtered, detected))
    IN  SubSeq(sorted, 1, IF Len(sorted) < 3 THEN Len(sorted) ELSE 3)

\* num_locations = len(all_locations)
num_locations(filtered, detected) == Len(all_locations(filtered, detected))

----------------------------------------------------------------------------
(* operators/coordination/result_summarizer.py: clean-up of the reply *)

\* str.lower() on the upper-case tokens the model uses
LowerChar(c) ==
    CASE c = "A" -> "a"
      [] c = "B" -> "b"
      [] c = "Reasoning" -> "reasoning"
      [] c = "CHAT" -> "chat"
      [] OTHER -> c

Lower(str) == [i \in 1..Len(str) |-> LowerChar(str[i])]

Blanks == {" ", "\t"}
SentenceEnd == {".", "!", "?"}

\* number of leading characters of str that belong to S
RECURSIVE LeadingRun(_, _)
LeadingRun(str, S) ==
    IF str # <<>> /\ Head(str) \in S THEN 1 + LeadingRun(Tail(str), S) ELSE 0

\* re.sub(r'[ \t]+', ' ', str)
RECURSIVE CollapseBlanks(_)
CollapseBlanks(str) ==
    IF str = <<>> THEN <<>>
    ELSE IF Head(str) \in Blanks
         THEN <<" ">> \o CollapseBlanks(SubSeq(str, LeadingRun(str, Blanks) + 1, Len(str)))
         ELSE <<Head(str)>> \o CollapseBlanks(Tail(str))

\* re.sub(r'\n{3,}', '\n\n', str)
RECURSIVE SqueezeNewlines(_)
SqueezeNewlines(str) ==
    IF str = <<>> THEN <<>>
    ELSE LET n == LeadingRun(str, {"\n"})
         IN  IF n >= 3 THEN <<"\n", "\n">> \o SqueezeNewlines(SubSeq(str, n + 1, Len(str)))
             ELSE IF n >= 1 THEN SubSeq(str, 1, n) \o SqueezeNewlines(SubSeq(str, n + 1, Len(str)))
             ELSE <<Head(str)>> \o SqueezeNewlines(Tail(str))

\* str.split(sep)
RECURSIVE Split(_, _)
Split(str, sep) ==
    LET hits == {i \in 1..(Len(str) - Len(sep) + 1) : SubSeq(str, i, i + Len(sep) - 1) = sep}
    IN  IF hits = {} THEN <<str>>
        ELSE LET i == CHOOSE x \in hits : \A y \in hits : x <= y
             IN  <<SubSeq(str, 1, i - 1)>> \o Split(SubSeq(str, i + Len(sep), Len(str)), sep)

\* sep.join(parts)
RECURSIVE Join(_, _)
Join(parts, sep) ==
    IF parts = <<>> THEN <<>>
    ELSE IF Len(parts) = 1 THEN parts[1]
    ELSE parts[1] \o sep \o Join(Tail(parts), sep)

\* the loop that builds cleaned_lines
RECURSIVE CleanedLines(_, _)
CleanedLines(lines, cleaned) ==
    IF lines = <<>> THEN cleaned
    ELSE LET stripped == Strip(Head(lines))
         IN  IF stripped # <<>>
             THEN CleanedLines(Tail(lines), Append(cleaned, stripped))
             ELSE IF cleaned # <<>> /\ cleaned[Len(cleaned)] # <<>>
                  THEN CleanedLines(Tail(lines), Append(cleaned, <<>>))
                  ELSE CleanedLines(Tail(lines), cleaned)

\* re.split(r'([.!?]\s+)', para): texts at the odd places, the separators
\* (an end mark and the whitespace after it) at the even places
RECURSIVE SplitSentences(_)
SplitSentences(para) ==
    LET hits == {i \in 1..(Len(para) - 1) :
                    para[i] \in SentenceEnd /\ para[i + 1] \in Whitespace}
    IN  IF hits = {} THEN <<para>>
        ELSE LET i == CHOOSE x \in hits : \A y \in hits : x <= y
                 k == LeadingRun(SubSeq(para, i + 1, Len(para)), Whitespace)
             IN  <<SubSeq(para, 1, i - 1), SubSeq(para, i, i + k)>>
                 \o SplitSentences(SubSeq(para, i + k + 1, Len(para)))

\* "very similar to a previous one": one contains the other and the lengths
\* differ by less than 30% of the longer
IsDuplicate(text, seen) ==
    \E sn \in seen :
        /\ IsSubstring(Lower(text), sn) \/ IsSubstring(sn, Lower(text))
        /\ 10 * Abs(Len(text) - Len(sn))
             < 3 * (IF Len(text) > Len(sn) THEN Len(text) ELSE Len(sn))

\* the loop "for i in range(0, len(sentences), 2)"
RECURSIVE CleanedSentences(_, _, _, _)
CleanedSentences(sentences, i, seen, cleaned) ==
    IF i > Len(sentences) THEN cleaned
    ELSE LET text == Strip(sentences[i])
             punct == IF i + 1 <= Len(sentences) THEN sentences[i + 1] ELSE <<>>
         IN  IF text # <<>> /\ Lower(text) \notin seen /\ ~IsDuplicate(text, seen)
             THEN CleanedSentences(sentences, i + 2, seen \cup {Lower(text)},
                                   Append(cleaned, text \o punct))
             ELSE CleanedSentences(sentences, i + 2, seen, cleaned)

\* the loop over the paragraphs
RECURSIVE CleanedParagraphs(_)
CleanedParagraphs(paragraphs) ==
    IF paragraphs = <<>> THEN <<>>
    ELSE LET para == Head(paragraphs)
             kept == CleanedSentences(SplitSentences(para), 1, {}, <<>>)
         IN  IF Strip(para) # <<>> /\ kept # <<>>
             THEN <<Join(kept, <<" ">>)>> \o CleanedParagraphs(Tail(paragraphs))
             ELSE CleanedParagraphs(Tail(paragraphs))

NonEmptyOnly(lines) == LET full(l) == l # <<>> IN SelectSeq(lines, full)

\* the block "if summary: ..." applied to the reply of the text generator
CleanSummary(reply) ==
    IF reply = <<>> THEN reply
    ELSE LET normal == SqueezeNewlines(CollapseBlanks(Strip(reply)))
             lines == CleanedLines(Split(normal, <<"\n">>), <<>>)
             joined == Join(NonEmptyOnly(lines), <<"\n", "\n">>)
             paragraphs == CleanedParagraphs(Split(joined, <<"\n", "\n">>))
             text == Join(paragraphs, <<"\n", "\n">>)
         IN  IF text # <<>> /\ text[Len(text)] \notin SentenceEnd
             THEN Append(text, ".")
             ELSE text

NoResultMessage == <<"No location information could be determined from the image", ".">>

\* no request is sent to the text generator
NoRequest == <<>>

\* the request without the two-paragraph branch
SummaryRequest_NoTwoParagraph(filtered, detected) ==
    LET n == num_locations(filtered, detected)
    IN  << [ paragraphs |-> IF n = 1 THEN 1 ELSE 3,
             labels |-> object_labels(detected),
             options |-> top_locations(filtered, detected) ] >>

\* the request summarize_result_operator sends: the number of paragraphs its
\* format_instructions ask for and the options listed in formatted_data
SummaryRequest(filtered, detected) ==
    LET n == num_locations(filtered, detected)
    IN  << [ paragraphs |-> IF n = 1 THEN 1 ELSE IF n = 2 THEN 2 ELSE 3,
             labels |-> object_labels(detected),
             options |-> top_locations(filtered, detected) ] >>

\* summarize_result_operator returns early with the fixed message
SummarizesWithoutGenerator(filtered, detected) ==
    \/ filtered = <<>>
    \/ detected = <<>>
    \/ num_locations(filtered, detected) = 0

----------------------------------------------------------------------------
(* llm/qwen_wrapper.py and llm/deepseek_wrapper.py *)

\* what the generation service does with one request: the call raises with
\* a message, the response holds no choices, or the first choice has content
ApiRaises(message) == [kind |-> "raises", text |-> message]
ApiNoChoices == [kind |-> "no_choices", text |-> <<>>]
ApiContent(content) == [kind |-> "content", text |-> content]

\* how a call of chat() ends: it returns a string or an exception leaves it
Returns(value) == [raised |-> FALSE, value |-> value]
Raises(message) == [raised |-> TRUE, value |-> message]

NoValidResponse == <<"[No", " ", "valid", " ", "response]">>
ApiCallException(message) == <<"[API", " ", "call", " ", "exception]", " ">> \o message

\* chat() without its try/except: the exception of the call leaves it
chat_NoCatch(api) ==
    CASE api.kind = "content" -> Returns(api.text)
      [] api.kind = "no_choices" -> Returns(NoValidResponse)
      [] OTHER -> Raises(api.text)

\* QwenWrapper.chat: the content of the first choice, "[No valid response]"
\* without choices, "[API call exception] <message>" for any exception
QwenWrapper_chat(api) ==
    CASE api.kind = "content" -> Returns(api.text)
      [] api.kind = "no_choices" -> Returns(NoValidResponse)
      [] OTHER -> Returns(ApiCallException(api.text))

\* DeepSeekWrapper.chat: the same three ways out, around requests.post,
\* raise_for_status and resp.json
DeepSeekWrapper_chat(api) ==
    CASE api.kind = "content" -> Returns(api.text)
      [] api.kind = "no_choices" -> Returns(NoValidResponse)
      [] OTHER -> Returns(ApiCallException(api.text))

\* the record kept of one call of the text generator
GeneratorCall(api, result) ==
    Some([api |-> api, raised |-> result.raised, reply |-> result.value])

----------------------------------------------------------------------------
(* new_state = state.copy() in the operators *)

\* new_state = state: the operator writes to the dict it was given, which
\* then holds what the operator returns
state_copy_SameObject(state, new_state) == new_state

\* new_state = state.copy(): the operator writes to a fresh dict, and the
\* dict it was given holds afterwards what it held before
state_copy(state, new_state) == state

----------------------------------------------------------------------------
(* operators/coordination/intent_classifier.py *)

\* classify_intent without the fallback: the normalised reply is returned
classify_intent_NoFallback(reply) == Lower(Strip(reply))[1]

\* intent = qwen.chat(messages).strip().lower(); anything else is "chat"
classify_intent(reply) ==
    LET answer == Lower(Strip(reply))
    IN  IF answer \in {<<"chat">>, <<"reasoning">>} THEN answer[1] ELSE "chat"

\* route_intent_condition with the two branch names exchanged
route_intent_condition_Swapped(intent_label) ==
    IF intent_label = "chat" THEN "reasoning" ELSE "chat"

\* route_intent_condition: return state.get("intent")
route_intent_condition(intent_label) == intent_label

----------------------------------------------------------------------------
(* The graph engine: graph.invoke(state, {"recursion_limit": 100}) *)

RecursionLimit == 100

Nodes == { "classify_intent", "llm_chat", "generate_perception_code",
           "execute_perception", "generate_sql", "sql_router", "execute_sql",
           "filter_result", "summarize_result" }

\* the engine runs another superstep only below the recursion limit
MayStep == steps < RecursionLimit

----------------------------------------------------------------------------
(* Node generate_sql: sql_statements = generate_sql_queries(objects) *)

GenerateSql ==
    /\ pc = "generate_sql"
    /\ MayStep
    /\ sql_statements' = generate_sql_queries(objects)
    /\ pc' = "sql_router"
    /\ steps' = steps + 1
    /\ UNCHANGED <<image_path, intent, objects, executed_sqls, query_results,
                   current_sql, current_index, filter_results, summary,
                   chat_response, boxes, summary_request, intent_reply, received,
                   generator, direct>>

----------------------------------------------------------------------------
(* SpecSynth: generate_sql_queries applied to every bounded object list *)

InitSynth ==
    /\ image_path = Some("img")
    /\ intent = "reasoning"
    /\ objects \in SeqsUpTo(SynthObjects, MaxObjects)
    /\ sql_statements = <<>>
    /\ executed_sqls = <<>>
    /\ query_results = <<>>
    /\ current_sql = <<>>
    /\ current_index = 0
    /\ filter_results = <<>>
    /\ summary = <<>>
    /\ chat_response = <<>>
    /\ pc = "generate_sql"
    /\ steps = 0
    /\ boxes = <<>>
    /\ summary_request = NoRequest
    /\ intent_reply = None
    /\ received = None
    /\ generator = None
    /\ NoDirectCall

NextSynth == GenerateSql

SpecSynth == InitSynth /\ [][NextSynth]_vars

----------------------------------------------------------------------------
(* SpecSpatial: generate_spatial_sql called on (a, b, sunset) and on
   (b, a, sunset), for every bounded choice of the three arguments *)

SunsetArgs == {None} \cup {Some(o) : o \in {x \in SynthObjects : x.label = SUNSET}}

InitSpatial ==
    /\ InitAgent
    /\ image_path = Some("img")
    /\ pc = "direct_call"
    /\ steps = 0
    /\ boxes = <<>>
    /\ summary_request = NoRequest
    /\ intent_reply = None
    /\ received = None
    /\ generator = None
    /\ call \in [a : SynthObjects, b : SynthObjects, sunset : SunsetArgs]
    /\ sql_ab = <<>>
    /\ sql_ba = <<>>

CallAB ==
    /\ pc = "direct_call"
    /\ sql_ab = <<>>
    /\ sql_ab' = generate_spatial_sql(call.a, call.b, call.sunset)
    /\ UNCHANGED <<agent, engine, call, sql_ba>>

CallBA ==
    /\ pc = "direct_call"
    /\ sql_ba = <<>>
    /\ sql_ba' = generate_spatial_sql(call.b, call.a, call.sunset)
    /\ UNCHANGED <<agent, engine, call, sql_ab>>

NextSpatial == CallAB \/ CallBA

SpecSpatial == InitSpatial /\ [][NextSpatial]_vars

----------------------------------------------------------------------------
(* Spec: one run of DecompositionAgent.run(user_text, image_path) *)

\* what the generation service does with the classification request
IntentApi ==
    { ApiContent(<<"chat">>), ApiContent(<<"reasoning">>),
      ApiContent(<<" ", "Reasoning", "\n">>), ApiContent(<<"maybe">>),
      ApiContent(<<"reasoning", ".">>), ApiNoChoices, ApiRaises(<<"timeout">>) }

\* what it does with the chat request
ChatApi == { ApiContent(<<"H", "i", ".">>), ApiNoChoices, ApiRaises(<<"timeout">>) }

\* what it does with the summary request
SummaryApi ==
    { ApiContent(<<"a", ".">>),
      ApiContent(<<"a", ".", "\n", "\n", "b", ".">>),
      ApiContent(<<"a", ".", "\n", "b">>),
      ApiContent(<<"a", "b", ".", " ", "A", "b", ".", " ", " ", "b", "!">>),
      ApiContent(<<>>),
      ApiContent(<<" ">>),
      ApiNoChoices,
      ApiRaises(<<"timeout">>) }

\* the strings chat() returns for these
IntentReplies == {QwenWrapper_chat(api).value : api \in IntentApi}
ChatReplies == {QwenWrapper_chat(api).value : api \in ChatApi}
SummaryReplies == {QwenWrapper_chat(api).value : api \in SummaryApi}

\* image_path as run() receives it: None, the empty string, or a path
ImagePaths == {None, Some(""), Some("data/test3.jpg")}

Ting == <<"Ting">>
SceneLabels == {Ta, Qiao, Ting, SUNSET}

SceneBBox(l) ==
    CASE l = Ta -> <<10, 10, 50, 50>>
      [] l = Qiao -> <<200, 10, 240, 50>>
      [] l = SUNSET -> <<5, 5, 15, 15>>
      [] OTHER -> <<-30, 10, 10, 50>>

\* one box per label at confidence 0.9, and a second, weaker box of the
\* first label elsewhere in the image
SceneBoxes ==
    {ObjectBox(l, 90, SceneBBox(l)) : l \in SceneLabels}
        \cup {ObjectBox(Ta, 70, SceneBBox(Ting))}

\* class names of the crowded scene, one box per class
ClassNames == << "person", "bicycle", "car", "motorcycle", "bus", "train",
                 "truck", "boat", "bench", "bird", "cat", "dog", "horse" >>

CrowdScene(n) ==
    [i \in 1..n |-> ObjectBox(<<ClassNames[i]>>, 90, <<20 * i, 10, 20 * i + 40, 50>>)]

\* what the vision model may return for the image
Scenes ==
    SeqsUpTo(SceneBoxes, MaxBoxes) \cup {CrowdScene(CrowdSize - 1), CrowdScene(CrowdSize)}

LeiFengTa == <<"Lei", "Feng", "Ta">>
DuanQiao == <<"Duan", "Qiao">>
BaiTa == <<"Bai", "Ta">>

Row(an, aa, bn, ba, d) ==
    [a_name |-> an, a_address |-> aa, b_name |-> bn, b_address |-> ba, distance |-> d]

\* row lists the database may return for a query
RowLists ==
    { <<>>,
      << Row(LeiFengTa, <<"Nanshan">>, DuanQiao, <<"Beishan">>, 50) >>,
      << Row(DuanQiao, <<"Baidi">>, LeiFengTa, <<"Xihu">>, 30),
         Row(BaiTa, <<"Beihai">>, DuanQiao, <<"Beishan">>, 80) >> }

DbOutcomes == {DbRaises} \cup {DbReturns(rows) : rows \in RowLists}

Init ==
    /\ InitAgent
    /\ image_path \in ImagePaths
    /\ boxes \in Scenes
    /\ pc = "classify_intent"
    /\ steps = 0
    /\ summary_request = NoRequest
    /\ intent_reply = None
    /\ received = None
    /\ generator = None
    /\ NoDirectCall

\* node classify_intent and its conditional edge: the branch named by
\* route_intent_condition is mapped to a node by add_conditional_edges
ClassifyIntent ==
    /\ pc = "classify_intent"
    /\ MayStep
    /\ \E api \in IntentApi :
        LET result == QwenWrapper_chat(api)
        IN  /\ generator' = GeneratorCall(api, result)
            /\ IF result.raised
               THEN /\ pc' = "Exception"
                    /\ UNCHANGED <<intent, intent_reply>>
               ELSE /\ intent_reply' = Some(result.value)
                    /\ intent' = classify_intent(result.value)
                    /\ pc' = IF route_intent_condition(intent') = "chat"
                             THEN "llm_chat" ELSE "generate_perception_code"
    /\ steps' = steps + 1
    /\ UNCHANGED <<image_path, objects, sql_statements, executed_sqls,
                   query_results, current_sql, current_index, filter_results,
                   summary, chat_response, boxes, summary_request, direct>>
    /\ received' = Some(state_copy(AgentState, AgentState'))

\* node llm_chat (chat_responder_operator), a finish point
LlmChat ==
    /\ pc = "llm_chat"
    /\ MayStep
    /\ \E api \in ChatApi :
        LET result == QwenWrapper_chat(api)
        IN  /\ generator' = GeneratorCall(api, result)
            /\ IF result.raised
               THEN /\ pc' = "Exception"
                    /\ UNCHANGED chat_response
               ELSE /\ chat_response' = result.value
                    /\ pc' = "END"
    /\ steps' = steps + 1
    /\ UNCHANGED <<image_path, intent, objects, sql_statements, executed_sqls,
                   query_results, current_sql, current_index, filter_results,
                   summary, boxes, summary_request, intent_reply, direct>>
    /\ received' = Some(state_copy(AgentState, AgentState'))

\* the test "image_path is None" in place of "not image_path"
NotGiven_NoneOnly(path) == path = None

\* "not image_path": None and the empty string are both false
NotGiven(path) == path = None \/ path = Some("")

\* node generate_perception_code: generate_perception_instruction raises
\* ValueError when image_path is missing or empty
GeneratePerceptionCode ==
    /\ pc = "generate_perception_code"
    /\ MayStep
    /\ pc' = IF NotGiven(image_path) THEN "ValueError" ELSE "execute_perception"
    /\ steps' = steps + 1
    /\ UNCHANGED <<agent, boxes, summary_request, intent_reply, received,
                   generator, direct>>

\* node execute_perception: objects = detect_objects(image_path)
ExecutePerception ==
    /\ pc = "execute_perception"
    /\ MayStep
    /\ objects' = detect_objects(boxes)
    /\ pc' = "generate_sql"
    /\ steps' = steps + 1
    /\ UNCHANGED <<image_path, intent, sql_statements, executed_sqls,
                   query_results, current_sql, current_index, filter_results,
                   summary, chat_response, boxes, summary_request, intent_reply, received,
                   generator, direct>>

\* node sql_router (sql_router_step) and its conditional edge
\* (route_sql_condition, evaluated on the state the node returned)
SqlRouter ==
    /\ pc = "sql_router"
    /\ MayStep
    /\ LET step == sql_router_step(sql_statements, executed_sqls, current_sql, current_index)
       IN  /\ current_sql' = step[1]
           /\ current_index' = step[2]
    /\ pc' = IF route_sql_condition(sql_statements, executed_sqls) = "continue"
             THEN "execute_sql" ELSE "filter_result"
    /\ steps' = steps + 1
    /\ UNCHANGED <<image_path, intent, objects, sql_statements, executed_sqls,
                   query_results, filter_results, summary, chat_response, boxes,
                   summary_request, intent_reply, generator, direct>>
    /\ received' = Some(state_copy(AgentState, AgentState'))

\* the number of leading queries of the run whose outcome is left open: the
\* later ones return no rows; in a crowded scene only the first is left open
VariedQueries == IF Len(sql_statements) > 2 * MaxVaried THEN 1 ELSE MaxVaried

\* node execute_sql: run current_sql, record the text as executed and append
\* its rows; an exception leaving execute_sql_query ends the run
ExecuteSql ==
    /\ pc = "execute_sql"
    /\ MayStep
    /\ \E outcome \in DbOutcomes :
        /\ Len(query_results) < VariedQueries \/ outcome = DbReturns(<<>>)
        /\ LET result == execute_sql_query(outcome)
           IN  IF result = Raised
               THEN /\ pc' = "Exception"
                    /\ UNCHANGED <<executed_sqls, query_results>>
               ELSE /\ executed_sqls' = Append(executed_sqls, current_sql)
                    /\ query_results' = Append(query_results, result)
                    /\ pc' = "sql_router"
    /\ steps' = steps + 1
    /\ UNCHANGED <<image_path, intent, objects, sql_statements, current_sql,
                   current_index, filter_results, summary, chat_response, boxes,
                   summary_request, intent_reply, received,
                   generator, direct>>

\* node filter_result with its edge leading back to sql_router
FilterResult_BackToRouter ==
    /\ pc = "filter_result"
    /\ MayStep
    /\ filter_results' = filter_results_op(sql_statements, query_results)
    /\ pc' = "sql_router"
    /\ steps' = steps + 1
    /\ UNCHANGED <<image_path, intent, objects, sql_statements, executed_sqls,
                   query_results, current_sql, current_index, summary,
                   chat_response, boxes, summary_request, intent_reply,
                   generator, direct>>
    /\ received' = Some(state_copy(AgentState, AgentState'))

\* node filter_result (filter_result_operator) and its edge to
\* summarize_result
FilterResult ==
    /\ pc = "filter_result"
    /\ MayStep
    /\ filter_results' = filter_results_op(sql_statements, query_results)
    /\ pc' = "summarize_result"
    /\ steps' = steps + 1
    /\ UNCHANGED <<image_path, intent, objects, sql_statements, executed_sqls,
                   query_results, current_sql, current_index, summary,
                   chat_response, boxes, summary_request, intent_reply,
                   generator, direct>>
    /\ received' = Some(state_copy(AgentState, AgentState'))

\* node summarize_result (summarize_result_operator), a finish point; apis
\* is what the generation service may do with the summary request
SummarizeResultWith(apis) ==
    /\ pc = "summarize_result"
    /\ MayStep
    /\ IF SummarizesWithoutGenerator(filter_results, objects)
       THEN /\ summary' = NoResultMessage
            /\ pc' = "END"
            /\ UNCHANGED <<summary_request, generator>>
       ELSE /\ summary_request' = SummaryRequest(filter_results, objects)
            /\ \E api \in apis :
                LET result == QwenWrapper_chat(api)
                IN  /\ generator' = GeneratorCall(api, result)
                    /\ IF result.raised
                       THEN /\ pc' = "Exception"
                            /\ UNCHANGED summary
                       ELSE /\ summary' = CleanSummary(result.value)
                            /\ pc' = "END"
    /\ steps' = steps + 1
    /\ UNCHANGED <<image_path, intent, objects, sql_statements, executed_sqls,
                   query_results, current_sql, current_index, filter_results,
                   chat_response, boxes, intent_reply, direct>>
    /\ received' = Some(state_copy(AgentState, AgentState'))

SummarizeResult == SummarizeResultWith(SummaryApi)

\* graph.invoke raises GraphRecursionError when the recursion limit is
\* reached while a node is still due
RecursionError ==
    /\ pc \in Nodes
    /\ ~MayStep
    /\ pc' = "GraphRecursionError"
    /\ UNCHANGED <<agent, steps, boxes, summary_request, intent_reply,
                   received, generator, direct>>

Next ==
    \/ ClassifyIntent
    \/ LlmChat
    \/ GeneratePerceptionCode
    \/ ExecutePerception
    \/ GenerateSql
    \/ SqlRouter
    \/ ExecuteSql
    \/ FilterResult
    \/ SummarizeResult
    \/ RecursionError

Spec == Init /\ [][Next]_vars

----------------------------------------------------------------------------
(* SpecRank: summarize_result_operator applied to every bounded list of
   filtered records, for three lists of detected objects *)

XiHu == <<"Xi", "Hu">>
GuShan == <<"Gu", "Shan">>

\* rows of the ranking inputs: the first two name the same two places in
\* opposite order with other addresses and distance; the first and the
\* third tie on matches and distance for the labels Ta and Qiao
RankRowSet ==
    { Row(LeiFengTa, <<"Nanshan">>, DuanQiao, <<"Beishan">>, 50),
      Row(DuanQiao, <<"Baidi">>, LeiFengTa, <<"Xihu">>, 30),
      Row(BaiTa, <<"Beihai">>, DuanQiao, <<"Beishan">>, 50),
      Row(XiHu, <<"Xihu">>, BaiTa, <<"Beihai">>, 30),
      Row(XiHu, <<"Xihu">>, GuShan, <<"Beishan">>, 50) }

\* every query ends in LIMIT 3
LimitRows == 3

QueryNames == <<"q1", "q2", "q3", "q4", "q5", "q6">>

RECURSIVE Sum(_)
Sum(ns) == IF ns = <<>> THEN 0 ELSE Head(ns) + Sum(Tail(ns))

\* the rows cut into consecutive records of the given sizes
RECURSIVE SplitRows(_, _, _)
SplitRows(rows, sizes, k) ==
    IF sizes = <<>> THEN <<>>
    ELSE << [sql |-> <<QueryNames[k]>>, result |-> SubSeq(rows, 1, Head(sizes))] >>
         \o SplitRows(SubSeq(rows, Head(sizes) + 1, Len(rows)), Tail(sizes), k + 1)

\* filtered records: up to max_rows different rows in all, 1..LimitRows rows
\* a record
RankInputs(max_rows) ==
    UNION { { SplitRows(rows, sizes, 1) :
                rows \in {f \in [1..n -> RankRowSet] :
                            \A i, k \in 1..n : i # k => f[i] # f[k]},
                sizes \in {z \in SeqsUpTo(1..LimitRows, n) : Sum(z) = n} } :
            n \in 0..max_rows }

\* detected objects: both labels above 0.7; one label at exactly 0.7 and
\* the reference marker; no label above 0.7
RankObjects ==
    { << ObjectBox(Ta, 90, SceneBBox(Ta)), ObjectBox(Qiao, 90, SceneBBox(Qiao)) >>,
      << ObjectBox(Ta, 90, SceneBBox(Ta)), ObjectBox(Qiao, 70, SceneBBox(Qiao)),
         ObjectBox(SUNSET, 90, SceneBBox(SUNSET)) >>,
      << ObjectBox(Ta, 70, SceneBBox(Ta)), ObjectBox(Qiao, 70, SceneBBox(Qiao)) >> }

InitRank ==
    /\ image_path = Some("img")
    /\ intent = "reasoning"
    /\ objects \in RankObjects
    /\ sql_statements = <<>>
    /\ executed_sqls = <<>>
    /\ query_results = <<>>
    /\ current_sql = <<>>
    /\ current_index = 0
    /\ filter_results \in RankInputs(MaxRows)
    /\ summary = <<>>
    /\ chat_response = <<>>
    /\ pc = "summarize_result"
    /\ steps = 0
    /\ boxes = <<>>
    /\ summary_request = NoRequest
    /\ intent_reply = None
    /\ received = None
    /\ generator = None
    /\ NoDirectCall

NextRank == SummarizeResult

SpecRank == InitRank /\ [][NextRank]_vars

----------------------------------------------------------------------------
(* SpecLoop: the execution loop on the descriptors generate_sql_queries
   makes of every bounded object list, lists with repeated labels included:
   generate_sql, then sql_router and execute_sql in turn, filter_result and
   summarize_result *)

\* length of the longest object list
MaxLoopObjects == 4

LoopObjects == {ObjectBox(l, 90, SceneBBox(l)) : l \in {Ta, Qiao, Ting}}

InitLoop ==
    /\ image_path = Some("img")
    /\ intent = "reasoning"
    /\ objects \in SeqsUpTo(LoopObjects, MaxLoopObjects)
    /\ sql_statements = <<>>
    /\ executed_sqls = <<>>
    /\ query_results = <<>>
    /\ current_sql = <<>>
    /\ current_index = 0
    /\ filter_results = <<>>
    /\ summary = <<>>
    /\ chat_response = <<>>
    /\ pc = "generate_sql"
    /\ steps = 0
    /\ boxes = <<>>
    /\ summary_request = NoRequest
    /\ intent_reply = None
    /\ received = None
    /\ generator = None
    /\ NoDirectCall

NextLoop ==
    \/ GenerateSql
    \/ SqlRouter
    \/ ExecuteSql
    \/ FilterResult
    \/ SummarizeResult

SpecLoop == InitLoop /\ [][NextLoop]_vars

----------------------------------------------------------------------------
(* SpecClean: summarize_result_operator applied to every bounded reply of
   the text generator, and to a state without results *)

\* length of the longest reply
MaxReply == 5

CleanAlphabet == {"a", "A", ".", "!", " ", "\n"}

\* what the generation service may do with the request: any content of up
\* to max_len characters, no choices, or an exception
CleanApi(max_len) ==
    {ApiContent(reply) : reply \in SeqsUpTo(CleanAlphabet, max_len)}
        \cup {ApiNoChoices, ApiRaises(<<"timeout">>)}

\* one query with a row, or no query with rows
CleanInputs ==
    { <<>>,
      << [sql |-> <<"q1">>,
          result |-> << Row(LeiFengTa, <<"Nanshan">>, DuanQiao, <<"Beishan">>, 50) >>] >> }

InitClean ==
    /\ image_path = Some("img")
    /\ intent = "reasoning"
    /\ objects = << ObjectBox(Ta, 90, SceneBBox(Ta)), ObjectBox(Qiao, 90, SceneBBox(Qiao)) >>
    /\ sql_statements = <<>>
    /\ executed_sqls = <<>>
    /\ query_results = <<>>
    /\ current_sql = <<>>
    /\ current_index = 0
    /\ filter_results \in CleanInputs
    /\ summary = <<>>
    /\ chat_response = <<>>
    /\ pc = "summarize_result"
    /\ steps = 0
    /\ boxes = <<>>
    /\ summary_request = NoRequest
    /\ intent_reply = None
    /\ received = None
    /\ generator = None
    /\ NoDirectCall

NextClean == SummarizeResultWith(CleanApi(MaxReply))

SpecClean == InitClean /\ [][NextClean]_vars

----------------------------------------------------------------------------
(* Reading a rendered text back *)

\* positions of a token in a text, ascending
PositionsOf(tok, text) == {i \in 1..Len(text) : text[i] = tok}

Min(S) == CHOOSE x \in S : \A y \in S : x <= y
Max(S) == CHOOSE x \in S : \A y \in S : x >= y

\* the two name patterns of a rendered text: what stands between '% and %'
\* in the geo_a clause and in the geo_b clause
LabelsOf(text) ==
    LET open == PositionsOf(LikeOpen, text)
        close == PositionsOf(LikeClose, text)
    IN  << SubSeq(text, Min(open) + 1, Min(close) - 1),
           SubSeq(text, Max(open) + 1, Max(close) - 1) >>

\* the longitude constraint a rendered text states, as <<w, e>> meaning
\* "the entity named after w lies at a longitude <= that of the entity named
\* after e"; <<>> when the text states none.  Alias a of the query is the
\* entity of the first name pattern, alias b that of the second.
LongitudeConstraint(text) ==
    IF WestCondition \in Range(text) THEN <<LabelsOf(text)[1], LabelsOf(text)[2]>>
    ELSE IF EastCondition \in Range(text) THEN <<LabelsOf(text)[2], LabelsOf(text)[1]>>
    ELSE <<>>

\* the state in which generate_sql has just run
SqlGenerated == pc = "sql_router" /\ executed_sqls = <<>> /\ current_sql = <<>>

NonReference(objs) == {i \in 1..Len(objs) : objs[i].label # SUNSET}

SameLabelPairs(objs) ==
    {p \in NonReference(objs) \X NonReference(objs) :
        p[1] < p[2] /\ objs[p[1]].label = objs[p[2]].label}

----------------------------------------------------------------------------
(* C1: in one run the execution loop never dispatches a descriptor whose
   rendered text is already in the executed set; no rendered text is handed
   to the query executor twice. *)
C1_NoRedispatch ==
    /\ pc = "execute_sql" =>
            /\ current_sql \in Range(sql_statements)
            /\ current_sql \notin Range(executed_sqls)
    /\ \A i, j \in 1..Len(executed_sqls) :
            i # j => executed_sqls[i] # executed_sqls[j]

\* the third descriptor of a run is being dispatched
C1_Witness == pc = "execute_sql" /\ Len(executed_sqls) = 2

----------------------------------------------------------------------------
(* C2: in every reachable state route_sql_condition returns "done" if and
   only if the set of executed descriptor keys equals the set of all
   descriptor keys, and "continue" otherwise. *)
C2_DoneIffAllExecuted ==
    LET route == route_sql_condition(sql_statements, executed_sqls)
        allExecuted == Range(executed_sqls) = Range(sql_statements)
    IN  /\ route \in {"done", "continue"}
        /\ (route = "done") = allExecuted
        /\ pc = "execute_sql" => ~allExecuted
        /\ pc = "filter_result" => allExecuted

\* the condition returned "done" after three descriptors were executed
C2_Witness == pc = "filter_result" /\ Len(executed_sqls) = 3

----------------------------------------------------------------------------
(* C3 as stated: for every finite list of descriptors a reasoning-path run
   reaches DONE (the router condition returns "done" and result filtering
   starts) with each descriptor attempted exactly once, for any number of
   descriptors, under the step limit of 100 that run() passes to the graph
   engine.  As a statement on the states in which a run has ended: a
   reasoning run that got past the image check ended after DONE, with as
   many executions as descriptors. *)
C3_Original ==
    (pc \notin Nodes /\ intent = "reasoning" /\ ~NotGiven(image_path)) =>
        /\ pc = "END"
        /\ Len(executed_sqls) = Len(sql_statements)
        /\ Range(executed_sqls) = Range(sql_statements)

----------------------------------------------------------------------------
(* C4: a query-executor failure for one descriptor does not abort the
   execution loop: execute_sql_query returns an error-marked row list
   instead of raising, the failing descriptor is recorded and counted as
   executed, and every remaining descriptor is still dispatched afterwards
   (the next router step dispatches the first remaining one, unless the
   engine has used up its steps). *)
FailureRecorded == \E i \in 1..Len(query_results) : query_results[i] = ErrorRows

C4_FailureKeepsLoop ==
    /\ pc # "Exception"
    /\ Len(query_results) = Len(executed_sqls)
    /\ (FailureRecorded /\ pc \in {"filter_result", "summarize_result", "END"}) =>
            /\ Range(executed_sqls) = Range(sql_statements)
            /\ Len(executed_sqls) = Len(sql_statements)

C4_FailureStep ==
    (pc = "sql_router" /\ FailureRecorded
        /\ Remaining(sql_statements, executed_sqls) # <<>>) =>
            \/ /\ pc' = "execute_sql"
               /\ current_sql' = Remaining(sql_statements, executed_sqls)[1]
               /\ UNCHANGED <<executed_sqls, query_results>>
            \/ pc' = "GraphRecursionError"

C4_FailureDoesNotAbort == []C4_FailureKeepsLoop /\ [][C4_FailureStep]_vars

\* the first of three descriptors failed and the loop went on to its end
C4_Witness ==
    /\ pc = "filter_result"
    /\ Len(query_results) = 3
    /\ query_results[1] = ErrorRows

----------------------------------------------------------------------------
(* C5 as stated: an execution record whose rows are an executor error
   marker is treated as empty rows for ranking: filtering discards it, it
   contributes no LocationPair and adds nothing to the number of locations
   that selects the narrative template; if the executor fails for every
   descriptor the ranked list is empty and the fixed no-result message is
   produced. *)
WithoutErrors(filtered) ==
    LET good(r) == r.result # ErrorRows IN SelectSeq(filtered, good)

C5_Original ==
    (pc \in {"summarize_result", "END"} /\ intent = "reasoning") =>
        /\ \A i \in 1..Len(filter_results) : filter_results[i].result # ErrorRows
        /\ num_locations(filter_results, objects)
             = num_locations(WithoutErrors(filter_results), objects)
        /\ (pc = "END" /\ \A i \in 1..Len(query_results) : query_results[i] = ErrorRows) =>
                /\ summary = NoResultMessage
                /\ summary_request = NoRequest

----------------------------------------------------------------------------
(* Reading the summarizer's request back *)

\* the summarizer has run and has sent a request to the text generator
Requested == pc = "END" /\ summary_request # NoRequest

\* the ranked locations listed in the request
Ranked == summary_request[1].options

\* the rows handed to the summarizer, record by record
InputRows == AllRows(filter_results)

RowKey(row) == {row.a_name, row.b_name}
OptionKey(loc) == {loc.location_a_name, loc.location_b_name}

\* the name pairs, order ignored, that occur in the rows
DistinctKeys == {RowKey(InputRows[i]) : i \in 1..Len(InputRows)}

\* position of the first row with that name pair
FirstRow(key) == Min({i \in 1..Len(InputRows) : RowKey(InputRows[i]) = key})

\* a ranked location repeats the names, addresses and distance of a row
FromRow(loc, row) ==
    /\ loc.location_a_name = row.a_name
    /\ loc.location_a_address = row.a_address
    /\ loc.location_b_name = row.b_name
    /\ loc.location_b_address = row.b_address
    /\ loc.distance = row.distance

----------------------------------------------------------------------------
(* C11: the ranked location list has length min(3, number of distinct
   deduplicated location pairs drawn from the records' rows); every ranked
   location is one of the deduplicated pairs, and no pair key appears twice
   in the list.  With no pair at all nothing is ranked and no request is
   sent. *)
C11_RankedLength ==
    /\ (pc = "END" /\ summary_request = NoRequest) => DistinctKeys = {}
    /\ Requested =>
        /\ Len(Ranked) = Min({3, Cardinality(DistinctKeys)})
        /\ \A i \in 1..Len(Ranked) :
                /\ OptionKey(Ranked[i]) \in DistinctKeys
                /\ \E k \in 1..Len(InputRows) : FromRow(Ranked[i], InputRows[k])
        /\ \A i, j \in 1..Len(Ranked) :
                i # j => OptionKey(Ranked[i]) # OptionKey(Ranked[j])

\* four distinct pairs were handed in and three are ranked
C11_Witness ==
    /\ Requested
    /\ Cardinality(DistinctKeys) = 4
    /\ Len(Ranked) = 3

----------------------------------------------------------------------------
(* C12: the ranked location list is ordered by descending matchCount and,
   among equal matchCount, by ascending distance; the sort is stable, so
   pairs equal in both keep their first-occurrence order; and no pair left
   out of the top 3 ranks strictly before a pair that is included. *)

\* detected objects that count for a row: confidence above 0.7, not the
\* reference marker, label contained in one of the two names
Matching(row) ==
    {i \in 1..Len(objects) :
        /\ objects[i].confidence > 70
        /\ objects[i].label # SUNSET
        /\ \/ IsSubstring(objects[i].label, row.a_name)
           \/ IsSubstring(objects[i].label, row.b_name)}

\* (matches, distance, first occurrence) of x ranks ahead of that of y
Ahead(mx, dx, fx, my, dy, fy) ==
    \/ mx > my
    \/ mx = my /\ dx < dy
    \/ mx = my /\ dx = dy /\ fx < fy

RankedFirstRow(i) == FirstRow(OptionKey(Ranked[i]))

C12_RankedOrder ==
    Requested =>
        /\ \A i, j \in 1..Len(Ranked) :
                i < j => Ahead(Ranked[i].match_count, Ranked[i].distance, RankedFirstRow(i),
                               Ranked[j].match_count, Ranked[j].distance, RankedFirstRow(j))
        /\ \A key \in DistinctKeys \ {OptionKey(Ranked[i]) : i \in 1..Len(Ranked)} :
                LET row == InputRows[FirstRow(key)]
                IN  \A i \in 1..Len(Ranked) :
                        Ahead(Ranked[i].match_count, Ranked[i].distance, RankedFirstRow(i),
                              Cardinality(Matching(row)), row.distance, FirstRow(key))

\* three of four pairs are ranked, two of them equal in matches and distance,
\* and the locations differ in matches
C12_Witness ==
    /\ Requested
    /\ Cardinality(DistinctKeys) = 4
    /\ Len(Ranked) = 3
    /\ Ranked[1].match_count = Ranked[2].match_count
    /\ Ranked[1].distance = Ranked[2].distance
    /\ Ranked[3].match_count < Ranked[2].match_count

----------------------------------------------------------------------------
(* C13: location pairs are deduplicated by the order-independent key of
   (nameA, nameB) only: across all rows of all records a row whose name
   pair, in either order, was already seen is dropped and the first
   occurrence is kept, even when the addresses or the distance differ.
   Every ranked location repeats the first row with its name pair, no two
   ranked locations share a name pair, and while at most three pairs occur
   every pair of the rows is ranked. *)
C13_FirstOccurrenceKept ==
    Requested =>
        /\ \A i \in 1..Len(Ranked) :
                FromRow(Ranked[i], InputRows[RankedFirstRow(i)])
        /\ \A i, j \in 1..Len(Ranked) :
                i # j => OptionKey(Ranked[i]) # OptionKey(Ranked[j])
        /\ Cardinality(DistinctKeys) <= 3 =>
                {OptionKey(Ranked[i]) : i \in 1..Len(Ranked)} = DistinctKeys

\* a later row of another record names an earlier pair in the opposite
\* order, with other addresses and another distance
C13_Witness ==
    /\ Requested
    /\ Len(filter_results) >= 2
    /\ \E i, k \in 1..Len(InputRows) :
            /\ i < k
            /\ RowKey(InputRows[i]) = RowKey(InputRows[k])
            /\ InputRows[i].a_name # InputRows[k].a_name
            /\ InputRows[i].a_address # InputRows[k].b_address
            /\ InputRows[i].distance # InputRows[k].distance
            /\ k > Len(filter_results[1].result)
    /\ Cardinality(DistinctKeys) < Len(InputRows)

----------------------------------------------------------------------------
(* C14: the matchCount of every LocationPair equals the number of detected
   objects with confidence strictly greater than 0.7 and a label other than
   the reference marker whose label is a substring of nameA or of nameB;
   hence 0 <= matchCount <= the number of such high-confidence
   non-reference labels. *)
HighNonReference ==
    {i \in 1..Len(objects) : objects[i].confidence > 70 /\ objects[i].label # SUNSET}

C14_MatchCount ==
    Requested =>
        \A i \in 1..Len(Ranked) :
            /\ Ranked[i].match_count
                 = Cardinality(Matching(InputRows[RankedFirstRow(i)]))
            /\ Ranked[i].match_count >= 0
            /\ Ranked[i].match_count <= Cardinality(HighNonReference)

\* one label is detected at exactly 0.7 and is contained in a name, the
\* reference marker is detected, and the ranked locations match 1 and 0 labels
C14_Witness ==
    /\ Requested
    /\ \E i \in 1..Len(objects) :
            /\ objects[i].confidence = 70
            /\ \E k \in 1..Len(Ranked) :
                    IsSubstring(objects[i].label, Ranked[k].location_b_name)
    /\ \E i \in 1..Len(objects) : objects[i].label = SUNSET
    /\ \E i, k \in 1..Len(Ranked) :
            Ranked[i].match_count = 1 /\ Ranked[k].match_count = 0

----------------------------------------------------------------------------
(* C15: summarize_result_operator selects its template by the number of
   ranked locations: 0 gives the fixed no-result message, 1 the
   single-paragraph template, 2 the two-paragraph template, and 3 or more
   the three-paragraph template. *)
C15_TemplateByCount ==
    pc = "END" =>
        LET n == Cardinality(DistinctKeys)
        IN  /\ n = 0 => summary = NoResultMessage /\ summary_request = NoRequest
            /\ n >= 1 => Requested
            /\ n = 1 => summary_request[1].paragraphs = 1
            /\ n = 2 => summary_request[1].paragraphs = 2
            /\ n >= 3 => summary_request[1].paragraphs = 3

\* two locations were ranked and two paragraphs were asked for
C15_Witness ==
    /\ Requested
    /\ Cardinality(DistinctKeys) = 2
    /\ Len(Ranked) = 2
    /\ summary_request[1].paragraphs = 2

----------------------------------------------------------------------------
(* C16: when the query executor returns empty rows for every descriptor,
   or there are no descriptors at all, filtering yields no records, nothing
   is ranked, and the final narrative is the fixed no-result message,
   produced without a request to the text generator in the summarization
   stage. *)
AllRowsEmpty == \A i \in 1..Len(query_results) : query_results[i] = <<>>

C16_EmptyRowsNoResult ==
    (intent = "reasoning" /\ AllRowsEmpty) =>
        /\ pc \in {"summarize_result", "END"} =>
                /\ Len(query_results) = Len(sql_statements)
                /\ filter_results = <<>>
                /\ num_locations(filter_results, objects) = 0
        /\ summary_request = NoRequest
        /\ pc = "END" => summary = NoResultMessage

\* three descriptors were executed, each with empty rows, and the run ended
C16_Witness ==
    /\ pc = "END"
    /\ intent = "reasoning"
    /\ Len(query_results) = 3
    /\ AllRowsEmpty
    /\ summary = NoResultMessage

----------------------------------------------------------------------------
(* C17 as stated: for every string the text generator returns, its failure
   sentinels included, the classified intent is one of "chat" or
   "reasoning", and every returned value that is not one of the two labels
   resolves to "chat". *)
IntentLabels == {<<"chat">>, <<"reasoning">>}

C17_Original ==
    intent_reply # None =>
        /\ intent \in {"chat", "reasoning"}
        /\ intent_reply[1] \notin IntentLabels => intent = "chat"

(* C17: for every string the text generator returns, its failure sentinels
   included, the classified intent is one of "chat" or "reasoning"; the
   reply is first stripped of leading and trailing whitespace and
   lower-cased, a reply that is then one of the two labels resolves to that
   label, and every other reply resolves to "chat". *)
C17_CoercedAfterNormalising ==
    intent_reply # None =>
        LET answer == Lower(Strip(intent_reply[1]))
        IN  /\ intent \in {"chat", "reasoning"}
            /\ answer \in IntentLabels => <<intent>> = answer
            /\ answer \notin IntentLabels => intent = "chat"

\* the reply "maybe" was classified as "chat"
C17_Witness ==
    /\ intent_reply = Some(<<"maybe">>)
    /\ intent = "chat"
    /\ pc = "llm_chat"

----------------------------------------------------------------------------
(* C18: when the intent is "reasoning" and no image reference is given
   (image_path missing or empty), the run aborts with an error surfaced to
   the caller before detection, query synthesis or any query dispatch takes
   place, and no summary is produced; the run ends that way in no other
   case. *)
C18_MissingImageAborts ==
    /\ (intent = "reasoning" /\ image_path \in {None, Some("")}) =>
            /\ pc \in {"generate_perception_code", "ValueError"}
            /\ objects = <<>>
            /\ sql_statements = <<>>
            /\ executed_sqls = <<>>
            /\ query_results = <<>>
            /\ current_sql = <<>>
            /\ filter_results = <<>>
            /\ summary = <<>>
            /\ summary_request = NoRequest
    /\ pc = "ValueError" =>
            /\ intent = "reasoning"
            /\ image_path \in {None, Some("")}
            /\ steps = 2

\* a reasoning run with the empty string as image_path has aborted
C18_Witness ==
    /\ pc = "ValueError"
    /\ intent = "reasoning"
    /\ image_path = Some("")

----------------------------------------------------------------------------
(* C19: on the reasoning path the stages of a run execute strictly one at
   a time in the order intent classification, detection, query synthesis,
   execution loop, result filtering/ranking, summarization: every step
   goes from a stage to itself or to the next one, the output of a stage
   is absent until the stage has run, result filtering never starts while
   an unexecuted descriptor remains, and summarization never starts before
   result filtering has finished. *)
Stage(node) ==
    CASE node = "classify_intent" -> 1
      [] node \in {"generate_perception_code", "execute_perception"} -> 2
      [] node = "generate_sql" -> 3
      [] node \in {"sql_router", "execute_sql"} -> 4
      [] node = "filter_result" -> 5
      [] node = "summarize_result" -> 6
      [] OTHER -> 7

\* the records filtering leaves: one for every query that returned rows
Filtered ==
    /\ Len(filter_results)
         = Cardinality({i \in 1..Len(query_results) : query_results[i] # <<>>})
    /\ \A i \in 1..Len(filter_results) :
            \E k \in 1..Len(query_results) :
                /\ query_results[k] # <<>>
                /\ filter_results[i] = [sql |-> sql_statements[k], result |-> query_results[k]]

C19_StageState ==
    intent = "reasoning" =>
        /\ Stage(pc) <= 2 => objects = <<>>
        /\ Stage(pc) <= 3 => sql_statements = <<>>
        /\ Stage(pc) <= 3 => executed_sqls = <<>> /\ query_results = <<>>
        /\ Stage(pc) <= 5 => filter_results = <<>>
        /\ Stage(pc) <= 6 => summary = <<>> /\ summary_request = NoRequest
        /\ pc \in {"filter_result", "summarize_result"} =>
                /\ Range(executed_sqls) = Range(sql_statements)
                /\ Len(executed_sqls) = Len(sql_statements)
                /\ Len(query_results) = Len(sql_statements)
        /\ pc = "summarize_result" => Filtered

C19_StageStep ==
    (intent' = "reasoning" /\ pc \in Nodes) =>
        \/ pc' = "GraphRecursionError"
        \/ pc' = "ValueError" /\ pc = "generate_perception_code"
        \/ pc' \in Nodes /\ Stage(pc') \in {Stage(pc), Stage(pc) + 1}
        \/ pc' = "END" /\ pc = "summarize_result"

C19_StagesInOrder == []C19_StageState /\ [][C19_StageStep]_vars

\* summarization is about to start after three executed descriptors, with
\* records left by the filter
C19_Witness ==
    /\ pc = "summarize_result"
    /\ Len(executed_sqls) = 3
    /\ filter_results # <<>>

----------------------------------------------------------------------------
(* C20: when the intent resolves to "chat" the run executes only the chat
   responder after classification and then ends: detection, query
   synthesis, the execution loop, result filtering and summarization are
   never run, and the final state carries a chat_response while the
   reasoning fields keep their initial values. *)
C20_ChatPathOnly ==
    intent = "chat" =>
        /\ pc \in {"llm_chat", "END"}
        /\ objects = <<>>
        /\ sql_statements = <<>>
        /\ executed_sqls = <<>>
        /\ query_results = <<>>
        /\ current_sql = <<>>
        /\ current_index = 0
        /\ filter_results = <<>>
        /\ summary = <<>>
        /\ summary_request = NoRequest
        /\ pc = "llm_chat" => chat_response = <<>> /\ steps = 1
        /\ pc = "END" => chat_response \in ChatReplies /\ steps = 2

\* a chat run has ended with the text generator's reply as chat_response
C20_Witness ==
    /\ intent = "chat"
    /\ pc = "END"
    /\ chat_response = <<"H", "i", ".">>

----------------------------------------------------------------------------
(* C21: the five operators are copy-on-write. When classify_intent_operator,
   chat_responder_operator, sql_router_step, filter_result_operator or
   summarize_result_operator has run, the state dict it was given holds what
   it held before the call, and the state it returned differs from that one
   in no field other than the operator's own outputs: intent; chat_response;
   current_sql and current_index; filter_results; summary. *)

\* the fields of the state an operator writes
OwnOutputs(node) ==
    CASE node = "classify_intent" -> {"intent"}
      [] node = "llm_chat" -> {"chat_response"}
      [] node = "sql_router" -> {"current_sql", "current_index"}
      [] node = "filter_result" -> {"filter_results"}
      [] node = "summarize_result" -> {"summary"}

CopyOnWriteNodes == { "classify_intent", "llm_chat", "sql_router",
                      "filter_result", "summarize_result" }

C21_OperatorStep ==
    (pc \in CopyOnWriteNodes /\ pc' # pc /\ pc' # "GraphRecursionError")
    => /\ received' = Some(AgentState)
       /\ \A f \in (DOMAIN AgentState) \ OwnOutputs(pc) :
              AgentState'[f] = AgentState[f]

C21_CopyOnWrite == [][C21_OperatorStep]_vars

\* the router has selected the second descriptor: the state it returned has
\* the new current_sql and current_index, the state it was given the old ones
C21_Witness ==
    /\ pc = "execute_sql"
    /\ received # None
    /\ current_index = 2
    /\ received[1].current_index = 1
    /\ received[1].current_sql # current_sql
    /\ received[1].executed_sqls = executed_sqls

----------------------------------------------------------------------------
(* C23: the text-generator clients never raise. Whenever the request fails
   or the response holds no choices, QwenWrapper.chat and DeepSeekWrapper.chat
   return a sentinel string ("[API call exception] <message>" or
   "[No valid response]"), no exception leaves them, and the run is not
   aborted by the failure of the generator. *)

\* the sentinel chat() returns for a call that gave no content
Sentinel(api) ==
    IF api.kind = "raises" THEN ApiCallException(api.text) ELSE NoValidResponse

C23_GeneratorNeverRaises ==
    generator # None =>
        LET g == generator[1]
        IN  /\ ~g.raised
            /\ ~DeepSeekWrapper_chat(g.api).raised
            /\ pc # "Exception"
            /\ g.api.kind \in {"raises", "no_choices"} =>
                   /\ g.reply = Sentinel(g.api)
                   /\ DeepSeekWrapper_chat(g.api).value = Sentinel(g.api)

\* the summary request failed with an exception and the run still reached
\* its end, with the sentinel as the narrative
C23_Witness ==
    /\ pc = "END"
    /\ generator # None
    /\ generator[1].api.kind = "raises"
    /\ summary_request # NoRequest
    /\ summary = Append(ApiCallException(generator[1].api.text), ".")

----------------------------------------------------------------------------
(* Reading the narrative back *)

\* the generator was called and chat() returned a string
Replied == generator # None /\ ~generator[1].raised

\* the string chat() returned
RawReply == generator[1].reply

\* the text ends with '.', '!' or '?'
EndsSentence(text) == text # <<>> /\ text[Len(text)] \in SentenceEnd

\* the paragraphs of a narrative: its non-empty parts between blank lines
NarrativeParagraphs(text) == NonEmptyOnly(Split(text, <<"\n", "\n">>))

\* the number of blank-line-delimited paragraphs of a raw reply: the runs of
\* consecutive lines that are not blank
RawParagraphCount(raw) ==
    LET lines == Split(raw, <<"\n">>)
        blank(i) == Strip(lines[i]) = <<>>
    IN  Cardinality({i \in 1..Len(lines) : ~blank(i) /\ (i = 1 \/ blank(i - 1))})

\* a sentence without the end marks that close it
RECURSIVE StripMarks(_)
StripMarks(text) ==
    IF text # <<>> /\ text[Len(text)] \in SentenceEnd
    THEN StripMarks(SubSeq(text, 1, Len(text) - 1))
    ELSE text

\* the sentences of a paragraph, each without its end marks
SentenceTexts(para) ==
    LET parts == SplitSentences(para)
        texts == [i \in 1..((Len(parts) + 1) \div 2) |-> StripMarks(Strip(parts[2 * i - 1]))]
    IN  NonEmptyOnly(texts)

\* two sentences are duplicates: one is a substring of the other and their
\* lengths differ by less than 30% of the longer
Duplicates(s, t) ==
    /\ IsSubstring(s, t) \/ IsSubstring(t, s)
    /\ 10 * Abs(Len(s) - Len(t)) < 3 * Max({Len(s), Len(t)})

----------------------------------------------------------------------------
(* C22: the narrative summarize_result_operator stores always ends with
   '.', '!' or '?', whatever string the text generator returned, and also
   when the fixed no-result message is stored. *)

C22_Original ==
    pc = "END" => EndsSentence(summary)

----------------------------------------------------------------------------
(* C26: normalization keeps the paragraphs of the reply: the narrative has
   as many paragraphs as the raw reply has non-empty blank-line-delimited
   paragraphs, so a single newline inside a paragraph is never turned into a
   paragraph break. *)

C26_Original ==
    (pc = "END" /\ Replied)
    => Len(NarrativeParagraphs(summary)) = RawParagraphCount(RawReply)

----------------------------------------------------------------------------
(* C27: after normalization no paragraph of the narrative holds two
   sentences that are duplicates of each other (one a substring of the
   other, lengths differing by less than 30% of the longer); in particular
   a sentence repeated identically is dropped whatever its length. *)

C27_Original ==
    (pc = "END" /\ Replied)
    => \A para \in Range(NarrativeParagraphs(summary)) :
           LET texts == SentenceTexts(para)
           IN  \A i, j \in 1..Len(texts) :
                   i < j => ~Duplicates(texts[i], texts[j])

----------------------------------------------------------------------------
(* Reading the execution loop back *)

\* the distinct texts of a list, each at the place of its first occurrence
RECURSIVE DistinctTexts(_)
DistinctTexts(sqls) ==
    IF sqls = <<>> THEN <<>>
    ELSE LET init == DistinctTexts(SubSeq(sqls, 1, Len(sqls) - 1))
             last == sqls[Len(sqls)]
         IN  IF last \in Range(init) THEN init ELSE Append(init, last)

\* route_sql_condition has returned "done": the graph is past the loop
LoopDone == pc \in {"filter_result", "summarize_result", "END"}

----------------------------------------------------------------------------
(* C24: descriptors are dispatched in the order of synthesis. The texts
   executed so far are the first distinct texts of sql_statements, in that
   order, and the text the router has just selected is the first element of
   sql_statements that is not executed yet: the k-th dispatch of a run is
   the k-th distinct descriptor of the list. *)

C24_DispatchOrder ==
    LET distinct == DistinctTexts(sql_statements)
        k == Len(executed_sqls)
    IN  /\ k <= Len(distinct)
        /\ executed_sqls = SubSeq(distinct, 1, k)
        /\ pc = "execute_sql" =>
            /\ k < Len(distinct)
            /\ current_sql = distinct[k + 1]
            /\ current_index = k + 1
            /\ \E i \in 1..Len(sql_statements) :
                /\ sql_statements[i] = current_sql
                /\ current_sql \notin Range(executed_sqls)
                /\ \A j \in 1..(i - 1) : sql_statements[j] \in Range(executed_sqls)

\* the third dispatch of a list whose third and fourth texts repeat the
\* first two: the router selects the fifth element
C24_Witness ==
    /\ pc = "execute_sql"
    /\ Len(executed_sqls) = 2
    /\ Len(sql_statements) = 5
    /\ sql_statements[3] = sql_statements[1]
    /\ sql_statements[4] = sql_statements[2]
    /\ current_sql = sql_statements[5]

----------------------------------------------------------------------------
(* C25: DONE is terminal. Once route_sql_condition has returned "done" in a
   run, it keeps returning "done", sql_router_step applied to the state
   returns it unchanged, no step of the run leads back to sql_router or
   execute_sql, and executed_sqls, query_results, current_sql and
   current_index do not change any more. *)

C25_DoneState ==
    LoopDone =>
        /\ route_sql_condition(sql_statements, executed_sqls) = "done"
        /\ sql_router_step(sql_statements, executed_sqls, current_sql, current_index)
               = <<current_sql, current_index>>

C25_DoneStep ==
    LoopDone =>
        /\ pc' \notin {"sql_router", "execute_sql"}
        /\ UNCHANGED <<sql_statements, executed_sqls, query_results,
                       current_sql, current_index>>

C25_DoneIsTerminal == [](C25_DoneState) /\ [][C25_DoneStep]_vars

\* a run that executed three descriptors has reached its end
C25_Witness ==
    /\ pc = "END"
    /\ Len(executed_sqls) = 3
    /\ Len(query_results) = 3
    /\ current_index = 3
    /\ summary # <<>>

----------------------------------------------------------------------------
(* C28: when the execution loop has finished, the recorded results match the
   descriptors one-to-one and position by position: query_results is as long
   as sql_statements, the i-th row list is the one produced by the i-th
   descriptor of sql_statements (executed_sqls[i], the text that was run
   when query_results[i] was appended), and every record of filter_results
   pairs a text with the rows that this text produced. This is stated for
   every synthesized list, also one where two descriptors have the same
   text. *)

C28_Original ==
    LoopDone =>
        /\ Len(query_results) = Len(sql_statements)
        /\ \A i \in 1..Len(query_results) : executed_sqls[i] = sql_statements[i]
        /\ pc # "filter_result" =>
               \A f \in Range(filter_results) :
                   \E i \in 1..Len(query_results) :
                       /\ f.sql = executed_sqls[i]
                       /\ f.result = query_results[i]

----------------------------------------------------------------------------
(* C29: sql_router_step and route_sql_condition always agree. On the state
   sql_router_step returns, route_sql_condition returns "continue" exactly
   when the step set current_sql to an element of sql_statements that is not
   in executed_sqls and current_index to the number of executed descriptors
   plus one, and "done" exactly when the step returned the state it was
   given unchanged; the graph then goes to execute_sql or to filter_result
   accordingly. *)

\* what route_sql_condition returns on the state the router step returned
RouteAfterStep == route_sql_condition(sql_statements', executed_sqls')

\* the step has selected a descriptor that is not executed
Selected ==
    /\ current_sql' \in Range(sql_statements) \ Range(executed_sqls)
    /\ current_index' = Len(executed_sqls) + 1
    /\ current_sql' # current_sql

C29_RouterStep ==
    (pc = "sql_router" /\ pc' \in {"execute_sql", "filter_result"})
    => /\ RouteAfterStep = "continue" <=> Selected
       /\ RouteAfterStep = "done" <=> AgentState' = AgentState
       /\ pc' = "execute_sql" <=> RouteAfterStep = "continue"

C29_RouterAgrees == [][C29_RouterStep]_vars

\* the router has selected the second descriptor of a list with a repeated
\* text, and nothing is left after it
C29_Witness ==
    /\ pc = "execute_sql"
    /\ current_index = 2
    /\ Len(sql_statements) = 3
    /\ Cardinality(Range(sql_statements)) = 2
    /\ current_sql \in Range(sql_statements) \ Range(executed_sqls)

----------------------------------------------------------------------------
(* C30: the two filter_results implementations (result_filter.py and
   agent_graph/nodes/brain/filter_result.py) return the same value on the
   same input: the list, in input order, of exactly those (sql, result)
   pairs of the zipped inputs whose result is a non-empty list, each kept
   pair unchanged. *)

\* the places of the zipped inputs whose result is not empty
KeptPlaces(sqls, results) ==
    {i \in 1..Min({Len(sqls), Len(results)}) : results[i] # <<>>}

\* out is the in-order list of the pairs at the kept places
InOrderPairs(out, sqls, results) ==
    LET kept == KeptPlaces(sqls, results)
    IN  /\ Len(out) = Cardinality(kept)
        /\ \A i \in kept :
               out[Cardinality({j \in kept : j <= i})]
                   = [sql |-> sqls[i], result |-> results[i]]

C30_SameFilter ==
    /\ filter_results_tool(sql_statements, query_results)
           = filter_results_op(sql_statements, query_results)
    /\ InOrderPairs(filter_results_tool(sql_statements, query_results),
                    sql_statements, query_results)
    /\ InOrderPairs(filter_results_op(sql_statements, query_results),
                    sql_statements, query_results)
    /\ pc \in {"summarize_result", "END"} =>
           filter_results = filter_results_tool(sql_statements, query_results)

\* three queries were run: the first and the third returned rows, the second
\* none, and filtering kept the first and the third
C30_Witness ==
    /\ pc = "summarize_result"
    /\ Len(query_results) = 3
    /\ query_results[1] # <<>>
    /\ query_results[2] = <<>>
    /\ query_results[3] # <<>>
    /\ Len(filter_results) = 2
    /\ filter_results[2].sql = sql_statements[3]

----------------------------------------------------------------------------
(* C6: generate_sql_queries emits exactly C(n,2) minus the number of
   same-label pairs descriptors, n being the number of non-reference objects;
   nothing for n <= 1 and nothing when all labels are identical. *)
C6_DescriptorCount ==
    SqlGenerated =>
        LET n == Cardinality(NonReference(objects))
        IN  /\ Len(sql_statements)
                 = (n * (n - 1)) \div 2 - Cardinality(SameLabelPairs(objects))
            /\ (n <= 1 => sql_statements = <<>>)
            /\ ((\A i, j \in 1..Len(objects) : objects[i].label = objects[j].label)
                    => sql_statements = <<>>)

\* three non-reference objects, two of them with the same label: 3 - 1 texts
C6_Witness ==
    /\ SqlGenerated
    /\ Cardinality(NonReference(objects)) = 3
    /\ Cardinality(SameLabelPairs(objects)) = 1
    /\ Len(sql_statements) = 2

----------------------------------------------------------------------------
(* C7: no descriptor emitted by generate_sql_queries pairs an object with
   itself, pairs two objects with the same label, or has the reference
   marker as either member of the pair. *)
C7_NoSelfNoReference ==
    SqlGenerated =>
        LET pairs == EmittedPairs(objects)
        IN  /\ Len(sql_statements) = Len(pairs)
            /\ \A k \in 1..Len(pairs) :
                LET a == objects[pairs[k][1]]
                    b == objects[pairs[k][2]]
                    named == LabelsOf(sql_statements[k])
                IN  /\ pairs[k][1] # pairs[k][2]
                    /\ a.label # b.label
                    /\ a.label # SUNSET /\ b.label # SUNSET
                    /\ named[1] # SUNSET /\ named[2] # SUNSET
                    /\ named = <<CollapseWhitespace(a.label), CollapseWhitespace(b.label)>>

\* a list holding the reference marker between two other objects, from
\* which exactly the descriptor of those two objects is emitted
C7_Witness ==
    /\ SqlGenerated
    /\ Len(objects) = 3
    /\ objects[2].label = SUNSET
    /\ Len(sql_statements) = 1

----------------------------------------------------------------------------
(* C8: with a reference marker, the pair (a, b) is WEST exactly when
   |center(a) - center(ref)| < |center(b) - center(ref)| and EAST otherwise,
   ties included; WEST renders X(a) <= X(b), EAST renders X(b) <= X(a);
   without a reference marker no directional constraint is rendered.  The
   objects Ta [10,10,50,50], Qiao [200,10,240,50], sunset [5,5,15,15] give
   exactly one descriptor (Ta, Qiao) with direction WEST. *)

\* twice |center(o) - center(r)|, written out on the coordinates
TwiceDistance(o, r) == Abs((o.bbox[1] + o.bbox[3]) - (r.bbox[1] + r.bbox[3]))

IsScenario(objs) ==
    /\ Len(objs) = 3
    /\ objs[1].label = Ta /\ objs[1].bbox = <<10, 10, 50, 50>>
    /\ objs[2].label = Qiao /\ objs[2].bbox = <<200, 10, 240, 50>>
    /\ objs[3].label = SUNSET /\ objs[3].bbox = <<5, 5, 15, 15>>

C8_Direction ==
    SqlGenerated =>
        LET pairs == EmittedPairs(objects)
            refs == {i \in 1..Len(objects) : objects[i].label = SUNSET}
        IN  /\ \A k \in 1..Len(pairs) :
                LET a == objects[pairs[k][1]]
                    b == objects[pairs[k][2]]
                    text == Range(sql_statements[k])
                IN  IF refs = {}
                    THEN WestCondition \notin text /\ EastCondition \notin text
                    ELSE LET ref == objects[Min(refs)]
                         IN  IF TwiceDistance(a, ref) < TwiceDistance(b, ref)
                             THEN WestCondition \in text /\ EastCondition \notin text
                             ELSE EastCondition \in text /\ WestCondition \notin text
            /\ IsScenario(objects) =>
                    /\ Len(sql_statements) = 1
                    /\ LabelsOf(sql_statements[1]) = <<Ta, Qiao>>
                    /\ WestCondition \in Range(sql_statements[1])

\* the scenario of the claim has been synthesized
C8_Witness == SqlGenerated /\ IsScenario(objects) /\ sql_statements # <<>>

----------------------------------------------------------------------------
(* C10 as stated: two distinct descriptors emitted by one generate_sql_queries
   call never have the same rendered text. *)
C10_Original ==
    SqlGenerated =>
        \A k1, k2 \in 1..Len(sql_statements) :
            k1 # k2 => sql_statements[k1] # sql_statements[k2]

\* the non-reference objects carry labels that stay pairwise different when
\* runs of whitespace are collapsed
DistinctLabels(objs) ==
    \A i, j \in NonReference(objs) :
        i # j => CollapseWhitespace(objs[i].label) # CollapseWhitespace(objs[j].label)

(* C10 amended: two distinct descriptors emitted by one generate_sql_queries
   call have different rendered texts whenever the non-reference objects of
   the call carry pairwise different labels (different after the collapse of
   whitespace runs that rendering applies). *)
C10_UniqueWhenLabelsDistinct ==
    (SqlGenerated /\ DistinctLabels(objects)) =>
        \A k1, k2 \in 1..Len(sql_statements) :
            k1 # k2 => sql_statements[k1] # sql_statements[k2]

\* three objects with pairwise different labels and their three texts
C10_Witness ==
    /\ SqlGenerated
    /\ DistinctLabels(objects)
    /\ Len(sql_statements) = 3

----------------------------------------------------------------------------
(* C9 as stated: for all a, b and every reference marker, the longitude
   constraint rendered by generate_spatial_sql(a, b, ref) relates the entities
   named after a's label and b's label in the same way as the one rendered by
   generate_spatial_sql(b, a, ref). *)
C9_Original ==
    (sql_ab # <<>> /\ sql_ba # <<>> /\ call.sunset # None) =>
        LongitudeConstraint(sql_ab) = LongitudeConstraint(sql_ba)

====
